---- MODULE Spec2Model ----
(***************************************************************************)
(* goContextIO: a two-legged OAuth 1.0 request signer for api.context.io.  *)
(* The repository holds three versions of package contextio:               *)
(*   src/contextIO.go      Do(method, q, params, body *string)             *)
(*   src/unnamed/part_000  Do(method, q, params, body io.Reader)           *)
(*   src/unnamed/part_001  NewRequest / AttachFile / Do / DoJSON           *)
(* Strings the code indexes, concatenates or parses are sequences of       *)
(* one-character strings; url.Values is a function from keys to sequences  *)
(* of values.                                                              *)
(***************************************************************************)
EXTENDS Integers, Sequences, FiniteSets, Bags, TLC

(***************************************************************************)
(* Bounds of the model.                                                    *)
(***************************************************************************)
\* oauth_nonce values the OAuth client may draw for one signature
MaxNonce == 2
\* oauth_timestamp values (seconds) the clock may show at signing time
MaxTime == 2
\* multipart boundaries multipart.NewWriter may draw
MaxBoundary == 2
\* length of the longest file in the modelled file system
MaxFileLen == 2

(***************************************************************************)
(* Strings.                                                                *)
(***************************************************************************)
\* the characters of the model in ASCII order (for sorting keys)
Alphabet == <<"#", "%", "&", "/", "2", "3", "5", "6", "=", "?", "D", "F", "a", "b", "~">>

Ord(ch) == CHOOSE i \in 1..Len(Alphabet) : Alphabet[i] = ch

HexDigits == {"0", "1", "2", "3", "4", "5", "6", "7", "8", "9",
              "a", "b", "c", "d", "e", "f", "A", "B", "C", "D", "E", "F"}

\* bytes.Compare / string < on two strings
RECURSIVE StrLess(_, _)
StrLess(s, t) ==
    IF Len(t) = 0 THEN FALSE
    ELSE IF Len(s) = 0 THEN TRUE
    ELSE IF s[1] = t[1] THEN StrLess(Tail(s), Tail(t))
    ELSE Ord(s[1]) < Ord(t[1])

\* strings.Index(s, ch): the first position of ch in s, 0 when absent
IndexOf(s, ch) ==
    IF \E i \in 1..Len(s) : s[i] = ch
    THEN CHOOSE i \in 1..Len(s) : s[i] = ch /\ \A j \in 1..(i-1) : s[j] /= ch
    ELSE 0

\* strings.Cut(s, ch): before, after, found
Cut(s, ch) ==
    LET At(i) ==
            IF i = 0 THEN [before |-> s, after |-> <<>>, found |-> FALSE]
            ELSE [before |-> SubSeq(s, 1, i-1), after |-> SubSeq(s, i+1, Len(s)),
                  found |-> TRUE]
    IN  At(IndexOf(s, ch))

HasPrefix(s, p) == Len(s) >= Len(p) /\ SubSeq(s, 1, Len(p)) = p

(***************************************************************************)
(* net/url escaping, as far as the modelled alphabet goes.  A byte outside *)
(* the alphabet decodes to "~".                                            *)
(***************************************************************************)
EscapeOf(ch) ==
    CASE ch = "#" -> <<"%", "2", "3">>
      [] ch = "%" -> <<"%", "2", "5">>
      [] ch = "&" -> <<"%", "2", "6">>
      [] ch = "/" -> <<"%", "2", "F">>
      [] ch = "=" -> <<"%", "3", "D">>
      [] ch = "?" -> <<"%", "3", "F">>
      [] OTHER    -> <<ch>>

ByteOf(h1, h2) ==
    CASE <<h1, h2>> = <<"2", "3">> -> "#"
      [] <<h1, h2>> = <<"2", "5">> -> "%"
      [] <<h1, h2>> = <<"2", "6">> -> "&"
      [] <<h1, h2>> = <<"2", "F">> -> "/"
      [] <<h1, h2>> = <<"3", "D">> -> "="
      [] <<h1, h2>> = <<"3", "F">> -> "?"
      [] OTHER -> "~"

\* URL.EscapedPath: as QueryEscape, but "/", "=" and "&" stay
RECURSIVE EscapedPath(_)
EscapedPath(s) ==
    IF Len(s) = 0 THEN <<>>
    ELSE (IF s[1] \in {"/", "=", "&"} THEN <<s[1]>> ELSE EscapeOf(s[1]))
         \o EscapedPath(Tail(s))

\* url.QueryEscape
RECURSIVE QueryEscape(_)
QueryEscape(s) ==
    IF Len(s) = 0 THEN <<>> ELSE EscapeOf(s[1]) \o QueryEscape(Tail(s))

\* the validity scan of url.unescape: every % is followed by two hex digits
RECURSIVE ValidEscapes(_)
ValidEscapes(s) ==
    IF Len(s) = 0 THEN TRUE
    ELSE IF s[1] = "%"
         THEN /\ Len(s) >= 3
              /\ s[2] \in HexDigits
              /\ s[3] \in HexDigits
              /\ ValidEscapes(SubSeq(s, 4, Len(s)))
         ELSE ValidEscapes(Tail(s))

\* url.QueryUnescape on a string with valid escapes
RECURSIVE Unescape(_)
Unescape(s) ==
    IF Len(s) = 0 THEN <<>>
    ELSE IF s[1] = "%"
         THEN <<ByteOf(s[2], s[3])>> \o Unescape(SubSeq(s, 4, Len(s)))
         ELSE <<s[1]>> \o Unescape(Tail(s))

(***************************************************************************)
(* url.Values                                                              *)
(***************************************************************************)
EmptyValues == <<>>

\* append(m[key], value)
AddValue(m, k, v) ==
    IF k \in DOMAIN m
    THEN [m EXCEPT ![k] = Append(@, v)]
    ELSE [x \in DOMAIN m \cup {k} |-> IF x = k THEN <<v>> ELSE m[x]]

\* url.ParseQuery: [vals, err]; on a bad pair the error is kept and parsing goes on
RECURSIVE ParseQueryInto(_, _, _)
ParseQueryInto(query, m, err) ==
    LET Pair(rest, kv) ==
            IF ~ValidEscapes(kv.before) \/ ~ValidEscapes(kv.after)
            THEN [query |-> rest, m |-> m, err |-> "invalid URL escape"]
            ELSE [query |-> rest,
                  m     |-> AddValue(m, Unescape(kv.before), Unescape(kv.after)),
                  err   |-> err]
        First(c1) ==
            IF Len(c1.before) = 0 THEN [query |-> c1.after, m |-> m, err |-> err]
            ELSE Pair(c1.after, Cut(c1.before, "="))
        Rest(n) == ParseQueryInto(n.query, n.m, n.err)
    IN  IF Len(query) = 0 THEN [vals |-> m, err |-> err]
        ELSE Rest(First(Cut(query, "&")))

ParseQuery(query) == ParseQueryInto(query, EmptyValues, "")

\* the least key of a non-empty set of strings
MinKey(S) == CHOOSE k \in S : \A o \in S \ {k} : StrLess(k, o)

\* one key's "k=v1&k=v2" of Values.Encode
RECURSIVE EncodeKey(_, _)
EncodeKey(k, vs) ==
    IF Len(vs) = 0 THEN <<>>
    ELSE QueryEscape(k) \o <<"=">> \o QueryEscape(vs[1])
         \o (IF Len(vs) > 1 THEN <<"&">> \o EncodeKey(k, Tail(vs)) ELSE <<>>)

\* Values.Encode: keys sorted, pairs joined by "&"
RECURSIVE EncodeKeys(_, _, _)
EncodeKeys(m, keys, buf) ==
    LET Joined(part) ==
            IF Len(part) = 0 THEN buf
            ELSE IF Len(buf) = 0 THEN part
            ELSE buf \o <<"&">> \o part
        Key(k) == EncodeKeys(m, keys \ {k}, Joined(EncodeKey(k, m[k])))
    IN  IF keys = {} THEN buf ELSE Key(MinKey(keys))

Encode(m) == EncodeKeys(m, DOMAIN m, <<>>)


\* the parameters of a Values as a bag of <<key, value>> pairs: what the sorted
\* parameter list of the signature base string holds
ParamBag(m) ==
    LET pairs == UNION {{<<k, m[k][i]>> : i \in DOMAIN m[k]} : k \in DOMAIN m}
    IN  [kv \in pairs |-> Cardinality({i \in DOMAIN m[kv[1]] : m[kv[1]][i] = kv[2]})]

(***************************************************************************)
(* http.Request, url.URL and the headers the package sets.                 *)
(***************************************************************************)
NilURL == [Scheme |-> "", Host |-> "", Opaque |-> <<>>, Path |-> <<>>,
           RawQuery |-> <<>>, Fragment |-> <<>>]

NoContentType == [mime |-> "", boundary |-> 0]

NoSignature == [secret |-> "", method |-> "", scheme |-> "", host |-> "",
                path |-> <<>>, params |-> EmptyBag]

NoAuthorization == [oauth_consumer_key |-> "", oauth_nonce |-> 0, oauth_timestamp |-> 0,
                    oauth_signature_method |-> "", oauth_version |-> "",
                    oauth_signature |-> NoSignature]

NoHeader == [UserAgent |-> "", ContentType |-> NoContentType,
             Authorization |-> NoAuthorization]

\* a request body: nil, a buffer of bytes, a reader wrapping a nil io.Reader, or a
\* buffer a multipart.Writer wrote; read is TRUE once a reader consumed it
NilBody == [kind |-> "nil", str |-> <<>>, boundary |-> 0, parts |-> <<>>, read |-> FALSE]

BytesBody(s) == [NilBody EXCEPT !.kind = "bytes", !.str = s]

NilReaderBody == [NilBody EXCEPT !.kind = "nilreader"]

NoMultipartForm == [set |-> FALSE, Value |-> EmptyValues, File |-> <<>>]

NilRequest == [Method |-> "", URL |-> NilURL, Host |-> "", Header |-> NoHeader,
               Body |-> NilBody,
               PostForm |-> EmptyValues, PostFormNil |-> TRUE,
               Form |-> EmptyValues, FormNil |-> TRUE,
               MultipartForm |-> NoMultipartForm]

\* url.Parse of "https://" + host + rest, for a rest that begins with "/":
\* the fragment is cut at the first "#", the query at the first "?", and the
\* path must unescape
ParseURL(host, rest) ==
    LET Parts(frag, qs) ==
            IF ValidEscapes(qs.before) /\ ValidEscapes(frag)
            THEN [url |-> [Scheme |-> "https", Host |-> host, Opaque |-> <<>>,
                           Path |-> Unescape(qs.before), RawQuery |-> qs.after,
                           Fragment |-> Unescape(frag)],
                  err |-> ""]
            ELSE [url |-> NilURL, err |-> "invalid URL escape"]
        Fragment(f) == Parts(f.after, Cut(f.before, "?"))
    IN  Fragment(Cut(rest, "#"))

\* http.NewRequest(method, "https://" + host + rest, body)
HTTPNewRequest(method, host, rest, body) ==
    LET Parsed(u) ==
            IF u.err /= ""
            THEN [req |-> NilRequest, err |-> u.err]
            ELSE [req |-> [NilRequest EXCEPT !.Method = method, !.URL = u.url,
                                              !.Host = host, !.Body = body],
                  err |-> ""]
    IN  Parsed(ParseURL(host, rest))

(***************************************************************************)
(* The ContextIO struct and go-oauth's Client.SetAuthorizationHeader.      *)
(***************************************************************************)
\* NewContextIO(key, secret)
NewContextIO(key, secret) ==
    [key |-> key, secret |-> secret,
     client |-> [Credentials |-> [Token |-> key, Secret |-> secret]]]

\* URL.RequestURI() of the URL without its query: the opaque path when set
RequestURIPath(u) ==
    IF Len(u.Opaque) = 0
    THEN (IF Len(u.Path) = 0 THEN <<"/">> ELSE EscapedPath(u.Path))
    ELSE IF HasPrefix(u.Opaque, <<"/", "/">>)
         THEN <<u.Scheme, ":">> \o u.Opaque
         ELSE u.Opaque

\* client.SetAuthorizationHeader(header, nil, method, u, form): the signature is
\* HMAC-SHA1, keyed by the consumer secret, of the base string made of the
\* method, the URL without query, and the sorted form, query and oauth_*
\* parameters; the MAC is modelled as collision free (the key and the base
\* string themselves)
SetAuthorizationHeader(client, header, method, u, form, nonce, timestamp) ==
    LET sig == [secret |-> client.Credentials.Secret,
                method |-> method,
                scheme |-> u.Scheme,
                host   |-> u.Host,
                path   |-> RequestURIPath(u),
                params |-> ParamBag(form) (+) ParamBag(ParseQuery(u.RawQuery).vals)]
    IN  [header EXCEPT !.Authorization =
            [oauth_consumer_key     |-> client.Credentials.Token,
             oauth_nonce            |-> nonce,
             oauth_timestamp        |-> timestamp,
             oauth_signature_method |-> "HMAC-SHA1",
             oauth_version          |-> "1.0",
             oauth_signature        |-> sig]]


(***************************************************************************)
(* src/contextIO.go: Do(method, q, params, body *string).  A *string is    *)
(* [isNil, str].  Each operator returns the outcome of its lines:          *)
(* "ok", "err" (an error is returned) or "panic" (a run-time panic).       *)
(***************************************************************************)
UserAgentV01 == "GoContextIO Simple Library v. 0.1"

UserAgentRaw == "GoContextIO Simple Library"

FormURLEncoded == [mime |-> "application/x-www-form-urlencoded", boundary |-> 0]

MutatingMethods == {"PUT", "POST", "DELETE"}

\* lines 50-52 and part_001 lines 55-57, for a non-empty q
Normalize(q) == IF SubSeq(q, 1, 1) /= <<"/">> THEN <<"/">> \o q ELSE q

\* lines 50-56: q[0:1] panics on an empty q and *body on a nil body; the error of
\* http.NewRequest is dropped, so a failed parse leaves req nil and
\* req.URL.Opaque panics
BuildFormBody(host, method, q, body) ==
    LET Made(nq, r) ==
            IF r.err /= ""
            THEN [outcome |-> "panic", req |-> NilRequest]
            ELSE [outcome |-> "ok",
                  req |-> [r.req EXCEPT !.URL.Opaque = nq,
                                        !.Header.UserAgent = UserAgentV01]]
        Slashed(nq) == Made(nq, HTTPNewRequest(method, host, nq, BytesBody(body.str)))
    IN  IF Len(q) = 0 \/ body.isNil
        THEN [outcome |-> "panic", req |-> NilRequest]
        ELSE Slashed(Normalize(q))

\* lines 57-65: the Content-Type and the body's parameters of a mutating method
FormOfBody(req, method, body) ==
    LET Parsed(pq) ==
            [req |-> [req EXCEPT !.Header.ContentType = FormURLEncoded],
             v   |-> pq.vals,
             err |-> pq.err]
    IN  IF method \in MutatingMethods
        THEN Parsed(ParseQuery(body.str))
        ELSE [req |-> req, v |-> EmptyValues, err |-> ""]

\* line 67
SignFormBody(c, req, v, nonce, timestamp) ==
    [req EXCEPT !.Header = SetAuthorizationHeader(c.client, req.Header, req.Method,
                                                   req.URL, v, nonce, timestamp)]

\* lines 48-70: everything before http.DefaultClient.Do; params is never read
BuildDo_contextIO(c, host, method, q, params, body, nonce, timestamp) ==
    LET Formed(f) ==
            IF f.err /= ""
            THEN [outcome |-> "err", err |-> f.err, req |-> NilRequest]
            ELSE [outcome |-> "ok", err |-> "",
                  req |-> SignFormBody(c, f.req, f.v, nonce, timestamp)]
        Built(b) ==
            IF b.outcome /= "ok"
            THEN [outcome |-> b.outcome, err |-> "", req |-> NilRequest]
            ELSE Formed(FormOfBody(b.req, method, body))
    IN  Built(BuildFormBody(host, method, q, body))

(***************************************************************************)
(* src/unnamed/part_000: Do(method, q, params, body io.Reader).  The       *)
(* request is a struct literal: q goes into URL.Opaque as it is, the       *)
(* parameters into URL.RawQuery.                                           *)
(***************************************************************************)
\* lines 50-63
BuildRaw(host, method, q, params, body) ==
    [NilRequest EXCEPT
        !.Method = method,
        !.Host = host,
        !.URL = [NilURL EXCEPT !.Host = host, !.Scheme = "https", !.Opaque = q,
                               !.RawQuery = Encode(params)],
        !.Header.UserAgent = UserAgentRaw,
        !.Body = IF body.isNil THEN NilReaderBody ELSE BytesBody(body.str)]

\* lines 48-68: everything before http.DefaultClient.Do; the form passed to the
\* signer is nil
BuildDo_part000(c, host, method, q, params, body, nonce, timestamp) ==
    LET Signed(r) ==
            [outcome |-> "ok", err |-> "",
             req |-> [r EXCEPT !.Header = SetAuthorizationHeader(c.client, r.Header,
                                                                  r.Method, r.URL,
                                                                  EmptyValues,
                                                                  nonce, timestamp)]]
    IN  Signed(BuildRaw(host, method, q, params, body))

(***************************************************************************)
(* src/unnamed/part_001: NewRequest, Request.Sign.                         *)
(***************************************************************************)
\* lines 55-73: q[0:1] panics on an empty q; the query string is appended when
\* there are query parameters; postParams is never read
BuildNewRequest(host, method, q, queryParams) ==
    LET Made(nq, r) ==
            IF r.err /= ""
            THEN [outcome |-> "err", err |-> r.err, req |-> NilRequest, Query |-> nq]
            ELSE [outcome |-> "ok", err |-> "", Query |-> nq,
                  req |-> [r.req EXCEPT !.URL.Opaque = nq,
                                        !.Header.UserAgent = UserAgentV01]]
        Slashed(nq) ==
            Made(nq, HTTPNewRequest(method, host,
                                    IF Cardinality(DOMAIN queryParams) > 0
                                    THEN nq \o <<"?">> \o Encode(queryParams)
                                    ELSE nq,
                                    NilBody))
    IN  IF Len(q) = 0
        THEN [outcome |-> "panic", err |-> "", req |-> NilRequest, Query |-> <<>>]
        ELSE Slashed(Normalize(q))

\* Request.Sign, lines 146-148: the form is the request's PostForm
Sign(c, req, nonce, timestamp) ==
    [req EXCEPT !.Header = SetAuthorizationHeader(c.client, req.Header, req.Method,
                                                   req.URL, req.PostForm,
                                                   nonce, timestamp)]

\* NewRequest, lines 53-76
BuildRequest(c, host, method, q, queryParams, postParams, nonce, timestamp) ==
    LET Built(b) ==
            IF b.outcome /= "ok"
            THEN [outcome |-> b.outcome, err |-> b.err, req |-> NilRequest]
            ELSE [outcome |-> "ok", err |-> "", req |-> Sign(c, b.req, nonce, timestamp)]
    IN  Built(BuildNewRequest(host, method, q, queryParams))


(***************************************************************************)
(* The file system AttachFile reads, and mime/multipart.                   *)
(***************************************************************************)
\* the contents of the regular file: MaxFileLen characters
FileContent == [i \in 1..MaxFileLen |-> IF i % 2 = 1 THEN "a" ELSE "b"]

RegularFile == <<"d", "/", "f">>

Directory == <<"d">>

MissingFile == <<"n">>

\* os.Open succeeds on the regular file and on the directory
CanOpen(fileName) == fileName \in {RegularFile, Directory}

\* what a complete read of the opened file yields; reading a directory fails at once
ContentOf(fileName) == IF fileName = RegularFile THEN FileContent ELSE <<>>

\* io.Copy(part, f), line 90, ends with an error when the file is a directory
\* or the read stops before the end of the file
CopyFails(fileName, copied) ==
    fileName = Directory \/ copied < Len(ContentOf(fileName))

\* the last position of "/" in s, 0 when absent
LastSlash(s) ==
    IF \E i \in 1..Len(s) : s[i] = "/"
    THEN CHOOSE i \in 1..Len(s) : s[i] = "/" /\ \A j \in (i+1)..Len(s) : s[j] /= "/"
    ELSE 0

\* filepath.Base
RECURSIVE Base(_)
Base(path) ==
    IF Len(path) = 0 THEN <<".">>
    ELSE IF path[Len(path)] = "/"
         THEN (IF Len(path) = 1 THEN <<"/">> ELSE Base(SubSeq(path, 1, Len(path) - 1)))
         ELSE SubSeq(path, LastSlash(path) + 1, Len(path))

\* the permutations of a set: the orders in which range may visit a map's keys
Orders(S) == {o \in [1..Cardinality(S) -> S] : \A i, j \in 1..Cardinality(S) : o[i] = o[j] => i = j}

\* writer.WriteField(key, val) for each value of one key, lines 94-99
FieldParts(key, vals) == [i \in 1..Len(vals) |-> [name |-> key, filename |-> <<>>, data |-> vals[i]]]

\* lines 93-100: the fields of the form in the order the keys are visited
RECURSIVE AllFieldParts(_, _)
AllFieldParts(form, order) ==
    IF Len(order) = 0 THEN <<>>
    ELSE FieldParts(order[1], form[order[1]]) \o AllFieldParts(form, Tail(order))

MultipartFormData(b) == [mime |-> "multipart/form-data", boundary |-> b]

\* multipart.Reader.ReadForm over the parts of a body: a part with a file name is
\* a file, another is a value; a part without a name is skipped
RECURSIVE ReadParts(_, _)
ReadParts(parts, f) ==
    LET With(p) ==
            IF Len(p.name) = 0 THEN f
            ELSE IF Len(p.filename) = 0
                 THEN [f EXCEPT !.Value = AddValue(@, p.name, p.data)]
                 ELSE [f EXCEPT !.File = Append(@, p)]
    IN  IF Len(parts) = 0 THEN f ELSE ReadParts(Tail(parts), With(parts[1]))

\* reading a body as multipart with the given boundary: it fails on a body that
\* is not multipart, was read before, or was written with another boundary
CanReadForm(body, boundary) ==
    body.kind = "multipart" /\ ~body.read /\ body.boundary = boundary

ReadForm(body) == ReadParts(body.parts, [set |-> TRUE, Value |-> EmptyValues, File |-> <<>>])

\* copyValues(dst, src) of net/http
AppendAll(dst, src) ==
    [k \in DOMAIN dst \cup DOMAIN src |->
        (IF k \in DOMAIN dst THEN dst[k] ELSE <<>>) \o (IF k \in DOMAIN src THEN src[k] ELSE <<>>)]

\* Request.ParseForm: a nil PostForm of a POST or PUT is read from a form-encoded
\* body (a multipart text holds no form-encoded pair); a nil Form is made of the
\* PostForm and the URL's query
ParseForm(r) ==
    LET Posted(encoded) ==
            IF r.PostFormNil
            THEN [r EXCEPT !.PostForm = IF encoded /\ r.Body.kind = "bytes" /\ ~r.Body.read
                                        THEN ParseQuery(r.Body.str).vals
                                        ELSE EmptyValues,
                           !.PostFormNil = FALSE,
                           !.Body.read = IF encoded THEN TRUE ELSE @]
            ELSE r
        Formed(r1) ==
            IF r1.FormNil
            THEN [r1 EXCEPT !.Form = AppendAll(r1.PostForm,
                                               ParseQuery(r1.URL.RawQuery).vals),
                            !.FormNil = FALSE]
            ELSE r1
    IN  Formed(Posted(/\ r.PostFormNil
                      /\ r.Method \in {"POST", "PUT", "PATCH"}
                      /\ r.Body.kind /= "nil"
                      /\ r.Header.ContentType.mime = FormURLEncoded.mime))

\* Request.ParseMultipartForm: the boundary comes from the Content-Type header
\* the request has at the time of the call; the reader consumes the body
ParseMultipartForm(r) ==
    LET Read(r1, f) ==
            [r1 EXCEPT !.Body.read = TRUE,
                       !.MultipartForm = f,
                       !.Form = AppendAll(@, f.Value),
                       !.PostForm = AppendAll(@, f.Value)]
        Multipart(r1) ==
            IF \/ r1.MultipartForm.set
               \/ r1.Header.ContentType.mime /= "multipart/form-data"
               \/ r1.Body.kind = "nil"
            THEN r1
            ELSE IF CanReadForm(r1.Body, r1.Header.ContentType.boundary)
                 THEN Read(r1, ReadForm(r1.Body))
                 ELSE [r1 EXCEPT !.Body.read = TRUE]
    IN  Multipart(IF r.FormNil THEN ParseForm(r) ELSE r)

(***************************************************************************)
(* src/unnamed/part_001: AttachFile.                                       *)
(***************************************************************************)
\* lines 85-101: the body the multipart writer wrote, the file part first
MultipartBody(req, fieldName, fileName, copied, boundary, order) ==
    [kind |-> "multipart", str |-> <<>>, boundary |-> boundary,
     parts |-> <<[name |-> fieldName, filename |-> Base(fileName),
                  data |-> SubSeq(ContentOf(fileName), 1, copied)]>>
               \o AllFieldParts(req.PostForm, order),
     read |-> FALSE]

\* an AttachFile that builds the headers of the multipart request anew
AttachFileNewHeader(req, fieldName, fileName, copied, boundary, order) ==
    IF ~CanOpen(fileName)
    THEN [err |-> "open: no such file or directory", req |-> req]
    ELSE [err |-> "",
          req |-> [ParseMultipartForm(
                       [req EXCEPT !.Body = MultipartBody(req, fieldName, fileName,
                                                          copied, boundary, order)])
                   EXCEPT !.Header = [NoHeader EXCEPT
                                         !.ContentType = MultipartFormData(boundary)]]]

\* lines 79-111.  copied is how much of the file io.Copy moved before it ended
\* (all of it, or less on a read error, whose error line 95 or 101 overwrites);
\* boundary is the one multipart.NewWriter drew; order is the order in which
\* range visits the keys of req.PostForm
AttachFileTo(req, fieldName, fileName, copied, boundary, order) ==
    IF ~CanOpen(fileName)
    THEN [err |-> "open: no such file or directory", req |-> req]
    ELSE [err |-> "",
          req |-> [ParseMultipartForm(
                       [req EXCEPT !.Body = MultipartBody(req, fieldName, fileName,
                                                          copied, boundary, order)])
                   EXCEPT !.Header.ContentType = MultipartFormData(boundary)]]


(***************************************************************************)
(* Inputs.                                                                 *)
(***************************************************************************)
Methods == {"GET", "POST", "PUT", "DELETE"}

\* "", "a", "/a", "/%", "/a?b=a"
Paths == {<<>>, <<"a">>, <<"/", "a">>, <<"/", "%">>, <<"/", "a", "?", "b", "=", "a">>}

\* {}, {a: [b]}, {a: [a], b: [a, b]}
ValueSets == {EmptyValues,
              AddValue(EmptyValues, <<"a">>, <<"b">>),
              AddValue(AddValue(AddValue(EmptyValues, <<"a">>, <<"a">>),
                                <<"b">>, <<"a">>), <<"b">>, <<"b">>)}

NilPtr == [isNil |-> TRUE, str |-> <<>>]

PtrTo(s) == [isNil |-> FALSE, str |-> s]

\* nil, "", "a=b", "b=a", "a=%"
Bodies == {NilPtr, PtrTo(<<>>), PtrTo(<<"a", "=", "b">>), PtrTo(<<"b", "=", "a">>),
           PtrTo(<<"a", "=", "%">>)}

Keys == {"key"}

Secrets == {"secret"}

\* the flag's default and an overriding -apiHost
DefaultHost == "api.context.io"

Hosts == {DefaultHost, "localhost"}

Nonces == 1..MaxNonce

Times == 1..MaxTime

Boundaries == 1..MaxBoundary

FieldNames == {<<"b">>}

FileNames == {RegularFile, Directory, MissingFile}

(***************************************************************************)
(* State: the builder, the process-wide host, the last call with its       *)
(* arguments and the values the OAuth client and the multipart writer drew,*)
(* the request it built (AttachFile changes it in place) and what the call *)
(* returned.                                                               *)
(***************************************************************************)
VARIABLES c, apiHost, call, req, ret, procs

vars == <<c, apiHost, call, req, ret, procs>>

NoCall == [op |-> "none", method |-> "", q |-> <<>>, queryParams |-> EmptyValues,
           body |-> NilPtr, postParams |-> EmptyValues, nonce |-> 0, timestamp |-> 0,
           fieldName |-> <<>>, fileName |-> <<>>, copied |-> 0, boundary |-> 0]

\* dispatched counts the calls of http.DefaultClient.Do; json is "nil", "all" or
\* "partial" (what ioutil.ReadAll had read when it failed)
NoReturn == [outcome |-> "none", err |-> "", response |-> FALSE, json |-> "nil",
             dispatched |-> 0]

\* the goroutines that call into one builder at the same time
Procs == {"g1", "g2"}

\* a goroutine between calls: pc is its position in the call, call its arguments,
\* form, req and ret its locals v, req and the values it returns
NoProc == [pc |-> "idle", call |-> NoCall, form |-> EmptyValues, req |-> NilRequest,
           ret |-> NoReturn]

Init ==
    /\ \E key \in Keys, secret \in Secrets : c = NewContextIO(key, secret)
    /\ apiHost \in Hosts
    /\ call = NoCall
    /\ req = NilRequest
    /\ ret = NoReturn
    /\ procs = [p \in Procs |-> NoProc]

\* return http.DefaultClient.Do(req) after a build b: nothing is sent unless the
\* build went through; the transport answers or fails; reading a body that wraps
\* a nil io.Reader panics
Dispatch(b, transport) ==
    IF b.outcome /= "ok"
    THEN [NoReturn EXCEPT !.outcome = b.outcome, !.err = b.err]
    ELSE IF b.req.Body.kind = "nilreader"
         THEN [NoReturn EXCEPT !.outcome = "panic", !.dispatched = 1]
         ELSE IF transport = "response"
              THEN [NoReturn EXCEPT !.outcome = "ok", !.response = TRUE, !.dispatched = 1]
              ELSE [NoReturn EXCEPT !.outcome = "err", !.err = "transport",
                                    !.dispatched = 1]

\* DoJSON after Do returned r: the error of Do, or the body ioutil.ReadAll read
ReadJSON(r, read) ==
    IF r.outcome /= "ok" THEN r
    ELSE IF read = "all"
         THEN [r EXCEPT !.response = FALSE, !.json = "all"]
         ELSE [r EXCEPT !.outcome = "err", !.err = "read", !.response = FALSE,
                        !.json = "partial"]

\* the calls of src/contextIO.go, of src/unnamed/part_000, of src/unnamed/part_001
FormBodyOps == {"Do_contextIO", "DoJSON_contextIO"}

RawOps == {"Do_part000", "DoJSON_part000"}

RequestOps == {"NewRequest", "Do", "DoJSON"}

Transports == {"response", "error"}

Reads == {"all", "error"}

\* no call is in progress and the caller holds no request
Idle == call = NoCall

\* src/contextIO.go Do, lines 48-72
Do_contextIO ==
    /\ Idle
    /\ \E method \in Methods, q \in Paths, params \in ValueSets, body \in Bodies,
       nonce \in Nonces, timestamp \in Times, transport \in Transports :
        \E b \in {BuildDo_contextIO(c, apiHost, method, q, params, body, nonce, timestamp)} :
            /\ call' = [NoCall EXCEPT !.op = "Do_contextIO", !.method = method, !.q = q,
                                      !.queryParams = params, !.body = body,
                                      !.nonce = nonce, !.timestamp = timestamp]
            /\ req' = b.req
            /\ ret' = Dispatch(b, transport)
            /\ UNCHANGED <<c, apiHost, procs>>

\* src/contextIO.go DoJSON, lines 75-83
DoJSON_contextIO ==
    /\ Idle
    /\ \E method \in Methods, q \in Paths, params \in ValueSets, body \in Bodies,
       nonce \in Nonces, timestamp \in Times, transport \in Transports, read \in Reads :
        \E b \in {BuildDo_contextIO(c, apiHost, method, q, params, body, nonce, timestamp)} :
            /\ call' = [NoCall EXCEPT !.op = "DoJSON_contextIO", !.method = method, !.q = q,
                                      !.queryParams = params, !.body = body,
                                      !.nonce = nonce, !.timestamp = timestamp]
            /\ req' = b.req
            /\ ret' = ReadJSON(Dispatch(b, transport), read)
            /\ UNCHANGED <<c, apiHost, procs>>

\* src/unnamed/part_000 Do, lines 48-70
Do_part000 ==
    /\ Idle
    /\ \E method \in Methods, q \in Paths, params \in ValueSets, body \in Bodies,
       nonce \in Nonces, timestamp \in Times, transport \in Transports :
        \E b \in {BuildDo_part000(c, apiHost, method, q, params, body, nonce, timestamp)} :
            /\ call' = [NoCall EXCEPT !.op = "Do_part000", !.method = method, !.q = q,
                                      !.queryParams = params, !.body = body,
                                      !.nonce = nonce, !.timestamp = timestamp]
            /\ req' = b.req
            /\ ret' = Dispatch(b, transport)
            /\ UNCHANGED <<c, apiHost, procs>>

\* src/unnamed/part_000 DoJSON, lines 73-81
DoJSON_part000 ==
    /\ Idle
    /\ \E method \in Methods, q \in Paths, params \in ValueSets, body \in Bodies,
       nonce \in Nonces, timestamp \in Times, transport \in Transports, read \in Reads :
        \E b \in {BuildDo_part000(c, apiHost, method, q, params, body, nonce, timestamp)} :
            /\ call' = [NoCall EXCEPT !.op = "DoJSON_part000", !.method = method, !.q = q,
                                      !.queryParams = params, !.body = body,
                                      !.nonce = nonce, !.timestamp = timestamp]
            /\ req' = b.req
            /\ ret' = ReadJSON(Dispatch(b, transport), read)
            /\ UNCHANGED <<c, apiHost, procs>>

\* src/unnamed/part_001 NewRequest, lines 53-76: returns the request and the error
NewRequest ==
    /\ Idle
    /\ \E method \in Methods, q \in Paths, queryParams \in ValueSets, postParams \in ValueSets,
       nonce \in Nonces, timestamp \in Times :
        \E b \in {BuildRequest(c, apiHost, method, q, queryParams, postParams,
                              nonce, timestamp)} :
            /\ call' = [NoCall EXCEPT !.op = "NewRequest", !.method = method, !.q = q,
                                      !.queryParams = queryParams,
                                      !.postParams = postParams,
                                      !.nonce = nonce, !.timestamp = timestamp]
            /\ req' = b.req
            /\ ret' = [NoReturn EXCEPT !.outcome = b.outcome, !.err = b.err]
            /\ UNCHANGED <<c, apiHost, procs>>

\* src/unnamed/part_001 Do, lines 116-122
Do ==
    /\ Idle
    /\ \E method \in Methods, q \in Paths, queryParams \in ValueSets, postParams \in ValueSets,
       nonce \in Nonces, timestamp \in Times, transport \in Transports :
        \E b \in {BuildRequest(c, apiHost, method, q, queryParams, postParams,
                              nonce, timestamp)} :
            /\ call' = [NoCall EXCEPT !.op = "Do", !.method = method, !.q = q,
                                      !.queryParams = queryParams,
                                      !.postParams = postParams,
                                      !.nonce = nonce, !.timestamp = timestamp]
            /\ req' = b.req
            /\ ret' = Dispatch(b, transport)
            /\ UNCHANGED <<c, apiHost, procs>>

\* src/unnamed/part_001 DoJSON, lines 125-133
DoJSON ==
    /\ Idle
    /\ \E method \in Methods, q \in Paths, queryParams \in ValueSets, postParams \in ValueSets,
       nonce \in Nonces, timestamp \in Times, transport \in Transports, read \in Reads :
        \E b \in {BuildRequest(c, apiHost, method, q, queryParams, postParams,
                              nonce, timestamp)} :
            /\ call' = [NoCall EXCEPT !.op = "DoJSON", !.method = method, !.q = q,
                                      !.queryParams = queryParams,
                                      !.postParams = postParams,
                                      !.nonce = nonce, !.timestamp = timestamp]
            /\ req' = b.req
            /\ ret' = ReadJSON(Dispatch(b, transport), read)
            /\ UNCHANGED <<c, apiHost, procs>>

\* the caller holds a request NewRequest returned
HoldsRequest == call.op \in {"NewRequest", "SetPostForm", "AttachFile"} /\ req /= NilRequest

\* the caller of NewRequest fills the exported PostForm of the embedded
\* *http.Request before attaching a file (NewRequest leaves it nil)
SetPostForm ==
    /\ HoldsRequest
    /\ call.op = "NewRequest"
    /\ \E form \in ValueSets :
        /\ req' = [req EXCEPT !.PostForm = form, !.PostFormNil = FALSE]
        /\ call' = [call EXCEPT !.op = "SetPostForm"]
    /\ UNCHANGED <<c, apiHost, ret, procs>>

\* multipart.NewWriter draws a random boundary of 30 bytes: one the request's
\* Content-Type does not already name
FreshBoundaries(r) == Boundaries \ {r.Header.ContentType.boundary}

\* src/unnamed/part_001 AttachFile, lines 79-111, on the request the caller holds
AttachFile ==
    /\ HoldsRequest
    /\ \E fieldName \in FieldNames, fileName \in FileNames,
          boundary \in FreshBoundaries(req), order \in Orders(DOMAIN req.PostForm) :
        \E copied \in 0..Len(ContentOf(fileName)) :
            \E a \in {AttachFileTo(req, fieldName, fileName, copied, boundary, order)} :
                /\ call' = [call EXCEPT !.op = "AttachFile", !.fieldName = fieldName,
                                        !.fileName = fileName, !.copied = copied,
                                        !.boundary = boundary]
                /\ req' = a.req
                /\ ret' = [NoReturn EXCEPT !.outcome = IF a.err = "" THEN "ok" ELSE "err",
                                           !.err = a.err]
    /\ UNCHANGED <<c, apiHost, procs>>

\* the call is over: its request and its results were locals of the call and of
\* its caller, and nothing of them stays in the builder
Discard ==
    /\ ~Idle
    /\ call' = NoCall
    /\ req' = NilRequest
    /\ ret' = NoReturn
    /\ UNCHANGED <<c, apiHost, procs>>

Next ==
    \/ Do_contextIO
    \/ DoJSON_contextIO
    \/ Do_part000
    \/ DoJSON_part000
    \/ NewRequest
    \/ Do
    \/ DoJSON
    \/ SetPostForm
    \/ AttachFile
    \/ Discard

Spec == Init /\ [][Next]_vars


(***************************************************************************)
(* Concurrent calls.  Each goroutine runs one call at a time in the steps  *)
(* at which the code reads what the goroutines share: *apiHost when the    *)
(* URL is built, c.client when the request is signed.  A step is an        *)
(* operator from the shared values and the goroutine's locals to the       *)
(* shared values and the locals after it.                                  *)
(***************************************************************************)
JSONOps == {"DoJSON_contextIO", "DoJSON"}

ConcMethods == {"POST"}

\* "a", "/%"
ConcPaths == {<<"a">>, <<"/", "%">>}

ConcValueSets == {EmptyValues, AddValue(EmptyValues, <<"a">>, <<"b">>)}

\* nil, "a=b"
ConcBodies == {NilPtr, PtrTo(<<"a", "=", "b">>)}

ConcFileNames == {RegularFile, MissingFile}

\* the arguments of a call of op: a body for src/contextIO.go, query parameters
\* for src/unnamed/part_001
ConcCalls ==
    {[NoCall EXCEPT !.op = op, !.method = method, !.q = q, !.body = body,
                    !.nonce = nonce, !.timestamp = MaxTime] :
        op \in {"Do_contextIO", "DoJSON_contextIO"}, method \in ConcMethods,
        q \in ConcPaths, body \in ConcBodies, nonce \in Nonces}
    \cup
    {[NoCall EXCEPT !.op = op, !.method = method, !.q = q, !.queryParams = queryParams,
                    !.nonce = nonce, !.timestamp = MaxTime] :
        op \in {"NewRequest", "Do", "DoJSON"}, method \in ConcMethods,
        q \in ConcPaths, queryParams \in ConcValueSets, nonce \in Nonces}

\* the goroutine returns without a request: a panic, or an error
Failed(l, outcome, err) ==
    [l EXCEPT !.pc = "done", !.ret = [NoReturn EXCEPT !.outcome = outcome, !.err = err]]

\* a build step that sets the process-wide host for its request
BuildStepSettingHost(shared, l) ==
    [shared |-> [shared EXCEPT !.apiHost = "localhost"],
     local  |-> [l EXCEPT !.pc = "sign",
                          !.req = BuildNewRequest("localhost", l.call.method, l.call.q,
                                                  l.call.queryParams).req]]

\* src/contextIO.go lines 50-65 and src/unnamed/part_001 lines 55-70: the request
\* before it is signed, built of *apiHost; nothing shared is written
BuildStep(shared, l) ==
    LET Formed(f) ==
            IF f.err /= "" THEN Failed(l, "err", f.err)
            ELSE [l EXCEPT !.pc = "sign", !.req = f.req, !.form = f.v]
        FormBody(b) ==
            IF b.outcome /= "ok" THEN Failed(l, b.outcome, "")
            ELSE Formed(FormOfBody(b.req, l.call.method, l.call.body))
        Plain(b) ==
            IF b.outcome /= "ok" THEN Failed(l, b.outcome, b.err)
            ELSE [l EXCEPT !.pc = "sign", !.req = b.req]
    IN  [shared |-> shared,
         local  |-> IF l.call.op \in FormBodyOps
                    THEN FormBody(BuildFormBody(shared.apiHost, l.call.method, l.call.q,
                                                l.call.body))
                    ELSE Plain(BuildNewRequest(shared.apiHost, l.call.method, l.call.q,
                                               l.call.queryParams))]

\* src/contextIO.go line 67 and src/unnamed/part_001 line 73: the request signed
\* with c.client; NewRequest then returns it
SignStep(shared, l) ==
    [shared |-> shared,
     local  |-> [l EXCEPT
                    !.req = IF l.call.op \in FormBodyOps
                            THEN SignFormBody(shared.c, l.req, l.form, l.call.nonce,
                                              l.call.timestamp)
                            ELSE Sign(shared.c, l.req, l.call.nonce, l.call.timestamp),
                    !.pc = IF l.call.op = "NewRequest" THEN "returned" ELSE "dispatch",
                    !.ret = IF l.call.op = "NewRequest"
                            THEN [NoReturn EXCEPT !.outcome = "ok"]
                            ELSE NoReturn]]

\* a goroutine starts a call
Begin(p) ==
    /\ procs[p].pc = "idle"
    /\ \E args \in ConcCalls :
        procs' = [procs EXCEPT ![p] = [NoProc EXCEPT !.pc = "build", !.call = args]]
    /\ UNCHANGED <<c, apiHost, call, req, ret>>

Build(p) ==
    /\ procs[p].pc = "build"
    /\ \E s \in {BuildStep([c |-> c, apiHost |-> apiHost], procs[p])} :
        /\ c' = s.shared.c
        /\ apiHost' = s.shared.apiHost
        /\ procs' = [procs EXCEPT ![p] = s.local]
    /\ UNCHANGED <<call, req, ret>>

SignRequest(p) ==
    /\ procs[p].pc = "sign"
    /\ \E s \in {SignStep([c |-> c, apiHost |-> apiHost], procs[p])} :
        /\ c' = s.shared.c
        /\ apiHost' = s.shared.apiHost
        /\ procs' = [procs EXCEPT ![p] = s.local]
    /\ UNCHANGED <<call, req, ret>>

\* http.DefaultClient.Do(req): src/contextIO.go line 71, src/unnamed/part_001 line 121
Send(p) ==
    /\ procs[p].pc = "dispatch"
    /\ \E transport \in Transports :
        procs' = [procs EXCEPT
                    ![p].ret = Dispatch([outcome |-> "ok", err |-> "", req |-> procs[p].req],
                                        transport),
                    ![p].pc = IF procs[p].call.op \in JSONOps THEN "read" ELSE "done"]
    /\ UNCHANGED <<c, apiHost, call, req, ret>>

\* DoJSON after Do: src/contextIO.go lines 76-82, src/unnamed/part_001 lines 126-132
ReadAll(p) ==
    /\ procs[p].pc = "read"
    /\ \E read \in Reads :
        procs' = [procs EXCEPT ![p].ret = ReadJSON(procs[p].ret, read), ![p].pc = "done"]
    /\ UNCHANGED <<c, apiHost, call, req, ret>>

\* AttachFile on the request NewRequest returned to this goroutine
Attach(p) ==
    /\ procs[p].pc = "returned"
    /\ \E fieldName \in FieldNames, fileName \in ConcFileNames,
          boundary \in FreshBoundaries(procs[p].req),
          order \in Orders(DOMAIN procs[p].req.PostForm) :
        \E a \in {AttachFileTo(procs[p].req, fieldName, fileName,
                               Len(ContentOf(fileName)), boundary, order)} :
            procs' = [procs EXCEPT
                        ![p].pc = "attached",
                        ![p].call = [@ EXCEPT !.fieldName = fieldName,
                                              !.fileName = fileName,
                                              !.copied = Len(ContentOf(fileName)),
                                              !.boundary = boundary],
                        ![p].req = a.req,
                        ![p].ret = [NoReturn EXCEPT
                                       !.outcome = IF a.err = "" THEN "ok" ELSE "err",
                                       !.err = a.err]]
    /\ UNCHANGED <<c, apiHost, call, req, ret>>

\* the call is over and its locals are gone
Return(p) ==
    /\ procs[p].pc \in {"done", "returned", "attached"}
    /\ procs' = [procs EXCEPT ![p] = NoProc]
    /\ UNCHANGED <<c, apiHost, call, req, ret>>

ConcNext ==
    \E p \in Procs :
        \/ Begin(p)
        \/ Build(p)
        \/ SignRequest(p)
        \/ Send(p)
        \/ ReadAll(p)
        \/ Attach(p)
        \/ Return(p)

ConcSpec == Init /\ [][ConcNext]_vars


(***************************************************************************)
(* The claims.                                                             *)
(***************************************************************************)
\* the request the last call's builder makes of the call's arguments with q,
\* queryParams, body and postParams replaced
Rebuilt(q, queryParams, body, postParams) ==
    CASE call.op \in FormBodyOps ->
            BuildDo_contextIO(c, apiHost, call.method, q, queryParams, body,
                              call.nonce, call.timestamp)
      [] call.op \in RawOps ->
            BuildDo_part000(c, apiHost, call.method, q, queryParams, body,
                            call.nonce, call.timestamp)
      [] OTHER ->
            BuildRequest(c, apiHost, call.method, q, queryParams, postParams,
                         call.nonce, call.timestamp)

\* the last call built and signed a request, which req still is
Signed ==
    /\ call.op \in FormBodyOps \cup RawOps \cup RequestOps
    /\ req /= NilRequest
    /\ req.Header.Authorization /= NoAuthorization

\* C1: for PUT, POST and DELETE the parameters derived from the body are signed:
\* two requests built alike but for their body parameters have different
\* Authorization headers, in Do of the form-body version and in NewRequest/Do
\* with postParams of the attachment-capable version
C1_BodyParametersAreSigned ==
    /\ (Signed /\ call.op \in FormBodyOps /\ call.method \in MutatingMethods) =>
          \A body2 \in Bodies :
              (/\ ~body2.isNil
               /\ ParseQuery(body2.str).err = ""
               /\ ParseQuery(body2.str).vals /= ParseQuery(call.body.str).vals)
              => Rebuilt(call.q, call.queryParams, body2, call.postParams)
                    .req.Header.Authorization /= req.Header.Authorization
    /\ (Signed /\ call.op \in RequestOps /\ call.method \in MutatingMethods) =>
          \A postParams2 \in ValueSets :
              postParams2 /= call.postParams
              => Rebuilt(call.q, call.queryParams, call.body, postParams2)
                    .req.Header.Authorization /= req.Header.Authorization

\* C2: a non-empty path without a leading "/" and the same path with one give
\* identical requests (URL, opaque path, headers, Authorization) and outcomes
C2_PathNormalization ==
    (/\ call.op \in FormBodyOps \cup RawOps \cup RequestOps
     /\ Len(call.q) > 0
     /\ call.q[1] /= "/")
    => /\ Rebuilt(<<"/">> \o call.q, call.queryParams, call.body, call.postParams)
            = Rebuilt(call.q, call.queryParams, call.body, call.postParams)
       /\ Rebuilt(<<"/">> \o call.q, call.queryParams, call.body, call.postParams).req
            = req

\* C3: non-empty query parameters become the URL's query string, exactly, and
\* are signed: requests that differ only in them have different Authorization
\* headers
C3_QueryParametersInURLAndSigned ==
    (Signed /\ call.queryParams /= EmptyValues)
    => /\ ParseQuery(req.URL.RawQuery).vals = call.queryParams
       /\ \A queryParams2 \in ValueSets :
             queryParams2 /= call.queryParams
             => Rebuilt(call.q, queryParams2, call.body, call.postParams)
                   .req.Header.Authorization /= req.Header.Authorization

\* the values of a form with at least one value
Fields(form) == [k \in {x \in DOMAIN form : Len(form[x]) > 0} |-> form[k]]

\* C4: after a successful AttachFile, re-parsing the request's body with the
\* boundary of its Content-Type yields one file part named fieldName with the
\* base name of fileName, and as fields exactly the keys and values of the form
\* the request had before the call
C4_AttachFilePreservesFields ==
    [][(call'.op = "AttachFile" /\ ret'.outcome = "ok")
       => /\ CanReadForm(req'.Body, req'.Header.ContentType.boundary)
          /\ Len(ReadForm(req'.Body).File) = 1
          /\ ReadForm(req'.Body).File[1].name = call'.fieldName
          /\ ReadForm(req'.Body).File[1].filename = Base(call'.fileName)
          /\ ReadForm(req'.Body).Value = Fields(req.PostForm)]_vars

\* C6: a request built for PUT, POST or DELETE carries Content-Type
\* application/x-www-form-urlencoded, and after AttachFile multipart/form-data
\* with the boundary of the body written
C6_ContentType ==
    /\ (/\ call.op \in FormBodyOps \cup RequestOps
        /\ call.method \in MutatingMethods
        /\ req /= NilRequest)
       => req.Header.ContentType = FormURLEncoded
    /\ (call.op = "AttachFile" /\ ret.outcome = "ok")
       => req.Header.ContentType = MultipartFormData(req.Body.boundary)

DoOps == {"Do_contextIO", "DoJSON_contextIO", "Do_part000", "DoJSON_part000", "Do", "DoJSON"}

\* the error of constructing the last call's request: of parsing its URL, or of
\* parsing the form body of a mutating method
ConstructionError ==
    IF call.op \in RawOps \/ Len(call.q) = 0 THEN ""
    ELSE IF call.op \in FormBodyOps
         THEN (IF call.body.isNil THEN ""
               ELSE IF ParseURL(apiHost, Normalize(call.q)).err /= ""
                    THEN ParseURL(apiHost, Normalize(call.q)).err
                    ELSE IF call.method \in MutatingMethods
                         THEN ParseQuery(call.body.str).err
                         ELSE "")
         ELSE ParseURL(apiHost,
                       IF call.queryParams /= EmptyValues
                       THEN Normalize(call.q) \o <<"?">> \o Encode(call.queryParams)
                       ELSE Normalize(call.q)).err

\* C8: a request is dispatched only once built and signed, and at most once; when
\* the body does not parse as a form or the construction of the request fails,
\* Do and DoJSON return that error, no response, and send nothing
C8_ErrorsReturnedNothingSent ==
    call.op \in DoOps
    => /\ ret.dispatched <= 1
       /\ ret.dispatched = 1 => req.Header.Authorization /= NoAuthorization
       /\ ConstructionError /= ""
          => /\ ret.outcome = "err"
             /\ ret.err = ConstructionError
             /\ ~ret.response
             /\ ret.json = "nil"
             /\ ret.dispatched = 0

\* C9: Do ends by returning a response or an error for every method, every path
\* (the empty one too) and every body (a nil one too); it never panics
C9_DoNeverPanics ==
    call.op \in {"Do_contextIO", "Do", "NewRequest"} => ret.outcome /= "panic"

\* C10: AttachFile returns nil only if the file was opened and all of it was
\* copied into the file part
C10_AttachFileReportsFileErrors ==
    (call.op = "AttachFile" /\ ret.outcome = "ok")
    => /\ CanOpen(call.fileName)
       /\ ~CopyFails(call.fileName, call.copied)
       /\ ReadForm(req.Body).File[1].data = ContentOf(call.fileName)

\* C5: AttachFile does not sign again: the Authorization header, the User-Agent,
\* the method, the URL with its opaque path and the host of the request are after
\* the call what they were before it, so the Authorization header stays the one
\* NewRequest computed of the call's arguments
C5_AttachFileDoesNotResign ==
    [][call'.op = "AttachFile"
       => /\ req'.Header.Authorization = req.Header.Authorization
          /\ req'.Header.UserAgent = req.Header.UserAgent
          /\ req'.Method = req.Method
          /\ req'.URL = req.URL
          /\ req'.Host = req.Host
          /\ req'.Header.Authorization =
                BuildRequest(c, apiHost, call'.method, call'.q, call'.queryParams,
                             call'.postParams, call'.nonce, call'.timestamp)
                    .req.Header.Authorization]_vars

\* a successful AttachFile changed the body and the Content-Type of a signed
\* request that had form fields
C5_Witness ==
    /\ call.op = "AttachFile"
    /\ ret.outcome = "ok"
    /\ req.Header.ContentType = MultipartFormData(call.boundary)
    /\ req.Body.kind = "multipart"
    /\ Len(req.Body.parts) > 1
    /\ req.Header.Authorization /= NoAuthorization

\* the request the goroutine's call builds when it runs alone
Alone(l) ==
    IF l.call.op \in FormBodyOps
    THEN BuildDo_contextIO(c, apiHost, l.call.method, l.call.q, l.call.queryParams,
                           l.call.body, l.call.nonce, l.call.timestamp)
    ELSE BuildRequest(c, apiHost, l.call.method, l.call.q, l.call.queryParams,
                      l.call.postParams, l.call.nonce, l.call.timestamp)

\* C7: under every interleaving of the goroutines' calls the builder's key, secret
\* and client and the api host keep their values, and the request of every call is
\* the request the call builds alone of the same arguments
C7_ConcurrentCallsIndependent ==
    /\ [][c' = c /\ apiHost' = apiHost]_vars
    /\ [](\A p \in Procs :
            /\ procs[p].pc \in {"dispatch", "read", "done", "returned"}
               => procs[p].req = Alone(procs[p]).req
            /\ (procs[p].pc = "done" /\ procs[p].ret.dispatched = 0)
               => procs[p].ret.outcome = Alone(procs[p]).outcome
            /\ procs[p].pc = "attached"
               => \E order \in Orders(DOMAIN Alone(procs[p]).req.PostForm) :
                     procs[p].req =
                        AttachFileTo(Alone(procs[p]).req, procs[p].call.fieldName,
                                     procs[p].call.fileName, procs[p].call.copied,
                                     procs[p].call.boundary, order).req)

\* two calls overlap: one goroutine has built a request of src/unnamed/part_001
\* that it has not signed yet while the other holds a signed request of
\* src/contextIO.go, made with another nonce, that it has not sent yet
C7_Witness ==
    \E p, r \in Procs :
        /\ p /= r
        /\ procs[p].pc = "sign"
        /\ procs[p].call.op \in RequestOps
        /\ procs[r].pc = "dispatch"
        /\ procs[r].call.op \in FormBodyOps
        /\ procs[r].req.Header.Authorization /= NoAuthorization
        /\ procs[p].call.nonce /= procs[r].call.nonce

====
